---- MODULE Spec2Model ----
(***************************************************************************)
(* Model of the interrupt-driven UART driver (class __UART__, UART.cpp).   *)
(*                                                                         *)
(* Two contexts share the driver object:                                   *)
(*   - the mainline, which calls begin/end/available/flush/isTransmitting/ *)
(*     read/write.  Its position inside a call is `pc`; every step is one  *)
(*     access of a volatile object (or a run of accesses no handler can    *)
(*     observe), so a handler may run between any two steps;               *)
(*   - the two interrupt handlers isrRX and isrUDRE.  On the AVR a handler *)
(*     runs with the global interrupt flag cleared and returns before the  *)
(*     mainline resumes, so each handler is one atomic action.  A handler  *)
(*     can fire only while the global interrupt flag (sreg_I) and its own  *)
(*     enable bit in UCSRnB are set.                                       *)
(*                                                                         *)
(* Registers that hold bit flags are modelled as the set of the names of   *)
(* the bits that are set; UBRRnH/UBRRnL/UDRn hold numbers.                 *)
(***************************************************************************)
EXTENDS Integers, Sequences, FiniteSets, TLC

(* ------------------------------ bounds --------------------------------- *)

\* Ring sizes of the model.  The source uses 64 for both rings (UART.h:18,26);
\* the index arithmetic is the same for every size >= 2.  The TX ring holds
\* three bytes, so that three writes can complete before isrUDRE runs.
UART_RX_BUFFER_SIZE == 3
UART_TX_BUFFER_SIZE == 4

\* Data bytes are drawn from 0..MaxByte (0 is a real byte value as well as
\* the "empty" sentinel of read()).
MaxByte == 1

\* Largest size passed to the bulk read/write calls.
MaxBulk == 2

\* History budgets: bytes passed to write() in one run, and bytes received
\* since the RX ring was last cleared.  Each lets a ring fill up and wrap.
MaxWrites == UART_TX_BUFFER_SIZE + 1
MaxRecv == UART_RX_BUFFER_SIZE + 1

\* Budgets of the specification that runs both directions together.
JointWrites == UART_TX_BUFFER_SIZE
JointRecv == UART_RX_BUFFER_SIZE + 1

\* CPU clock (build flag F_CPU used at UART.cpp:55,62) and the baud rates
\* passed to begin().
F_CPU == 16000000
BaudRates == {9600, 300}

Byte == 0..MaxByte
RxIndex == 0..(UART_RX_BUFFER_SIZE - 1)
TxIndex == 0..(UART_TX_BUFFER_SIZE - 1)

(* ------------------------------- state --------------------------------- *)

VARIABLES
    \* hardware
    sreg_I,     \* global interrupt enable flag of SREG
    ubrrh, ubrrl, ucsra, ucsrb, ucsrc, udr,
    \* driver object
    rxBuffer, txBuffer, rxHead, rxTail, txHead, txTail, began,
    \* mainline context
    pc,         \* position of the mainline
    caller,     \* function the current callee returns to ("main" = application)
    head,       \* local `head` of write(n)
    tmp,        \* value of UCSRnB read by a read-modify-write in progress
    sregSave,   \* SREG saved by ATOMIC_BLOCK(ATOMIC_RESTORESTATE)
    arg,        \* argument of the call in progress
    wq,         \* bytes a bulk write has still to pass to write(n)
    rdLeft,     \* bytes a bulk read has still to collect (size - i)
    rdBuf,      \* n[0..i-1] of the bulk read (kept until the next call)
    lastOp, ret,\* the function the application called last and, once it has
                \* returned (pc = "idle"), its result
    \* history
    written,    \* bytes passed to write(), in call order
    sent,       \* bytes stored into UDRn by isrUDRE, in order
    received,   \* bytes pushed by isrRX since the RX ring was last cleared
    readLog,    \* bytes read() took from a non-empty ring since then
    rxOverflowed, \* a push happened with SIZE-1 bytes unread since then
    lastSuccess \* the last of begin/end that returned 1 ("none" at first)

hw == <<sreg_I, ubrrh, ubrrl, ucsra, ucsrb, ucsrc, udr>>
regs == <<ubrrh, ubrrl, ucsra, ucsrb, ucsrc, udr>>
rxRing == <<rxBuffer, rxHead, rxTail>>
txRing == <<txBuffer, txHead, txTail>>
locals == <<head, tmp, sregSave, arg, wq, rdLeft, rdBuf>>
results == <<lastOp, ret>>
txHist == <<written, sent>>
rxHist == <<received, readLog, rxOverflowed>>
vars == <<hw, rxRing, txRing, began, pc, caller, locals, results, txHist, rxHist,
          lastSuccess>>

(* --------------------------- pure helpers ------------------------------ *)

\* (uint16_t) of a value
U16(x) == x % 65536

\* (q - 1) / 2 in unsigned 32-bit arithmetic, for a quotient q >= 0: q - 1
\* wraps to 2^32 - 1 when q = 0, and half of that is 2^31 - 1
HalfOfPred32(q) == IF q = 0 THEN 2147483647 ELSE (q - 1) \div 2

IsPrefix(s, t) == Len(s) <= Len(t) /\ SubSeq(t, 1, Len(s)) = s

\* available() without the `UART_RX_BUFFER_SIZE +` term: in C the remainder of
\* a negative difference is negative, and the uint8_t result wraps
available_value_nowrap(h, t) ==
    IF h >= t THEN (h - t) % UART_RX_BUFFER_SIZE
    ELSE (256 - ((t - h) % UART_RX_BUFFER_SIZE)) % 256

\* available() returning a flag, 1 when the ring is not empty
available_value_flag(h, t) == IF h # t THEN 1 ELSE 0

\* bytes = (UART_RX_BUFFER_SIZE + rxHead - rxTail) % UART_RX_BUFFER_SIZE
available_value(h, t) == (UART_RX_BUFFER_SIZE + h - t) % UART_RX_BUFFER_SIZE

\* isTransmitting() testing the transmitter enable bit instead of UDRIE0
isTransmitting_value_txen(b) == IF "TXEN0" \in b THEN 1 ELSE 0

\* (*this->ucsrb & (1 << UDRIE0)) != 0
isTransmitting_value(b) == IF "UDRIE0" \in b THEN 1 ELSE 0

\* uint16_t prescale = (F_CPU / 4 / baudrate - 1) / 2, recomputed with /8
\* when it exceeds 0x0FFF
prescale_first(baudrate) == U16(HalfOfPred32((F_CPU \div 4) \div baudrate))
prescale_second(baudrate) == U16(HalfOfPred32((F_CPU \div 8) \div baudrate))
prescale_value(baudrate) ==
    IF prescale_first(baudrate) > 4095 THEN prescale_second(baudrate)
    ELSE prescale_first(baudrate)

\* the unread part of a ring, oldest first
RECURSIVE Window(_, _, _, _)
Window(buf, t, h, size) ==
    IF t = h THEN <<>> ELSE <<buf[t]>> \o Window(buf, (t + 1) % size, h, size)

(* ------------------------------- Init ---------------------------------- *)

\* a driver object whose lifecycle flag is not zero-initialized
Init_began ==
    /\ sreg_I = FALSE
    /\ ubrrh = 0 /\ ubrrl = 0 /\ udr = 0
    /\ ucsra = {} /\ ucsrb = {} /\ ucsrc = {}
    /\ rxBuffer = [i \in RxIndex |-> 0]
    /\ txBuffer = [i \in TxIndex |-> 0]
    /\ rxHead = 0 /\ rxTail = 0 /\ txHead = 0 /\ txTail = 0
    /\ began = 1
    /\ pc = "idle" /\ caller = "main"
    /\ head = 0 /\ tmp = {} /\ sregSave = FALSE
    /\ arg = 0 /\ wq = <<>> /\ rdLeft = 0 /\ rdBuf = <<>>
    /\ lastOp = "none" /\ ret = 0
    /\ written = <<>> /\ sent = <<>>
    /\ received = <<>> /\ readLog = <<>> /\ rxOverflowed = FALSE
    /\ lastSuccess = "none"

\* UART0/UART1 are objects of static storage (UART0.cpp:26): the members the
\* constructor does not set are zero.  The registers hold their reset values.
Init ==
    /\ sreg_I = FALSE
    /\ ubrrh = 0 /\ ubrrl = 0 /\ udr = 0
    /\ ucsra = {} /\ ucsrb = {} /\ ucsrc = {}
    /\ rxBuffer = [i \in RxIndex |-> 0]
    /\ txBuffer = [i \in TxIndex |-> 0]
    /\ rxHead = 0 /\ rxTail = 0 /\ txHead = 0 /\ txTail = 0
    /\ began = 0
    /\ pc = "idle" /\ caller = "main"
    /\ head = 0 /\ tmp = {} /\ sregSave = FALSE
    /\ arg = 0 /\ wq = <<>> /\ rdLeft = 0 /\ rdBuf = <<>>
    /\ lastOp = "none" /\ ret = 0
    /\ written = <<>> /\ sent = <<>>
    /\ received = <<>> /\ readLog = <<>> /\ rxOverflowed = FALSE
    /\ lastSuccess = "none"

(* ------------------------ interrupt handlers --------------------------- *)

\* isrRX dropping the byte when the ring is full
isrRX_fullcheck(b, limit) ==
    /\ sreg_I /\ "RXCIE0" \in ucsrb /\ "RXEN0" \in ucsrb
    /\ Len(received) < limit
    /\ IF (rxHead + 1) % UART_RX_BUFFER_SIZE = rxTail
       THEN UNCHANGED <<rxBuffer, rxHead>>
       ELSE /\ rxBuffer' = [rxBuffer EXCEPT ![rxHead] = b]
            /\ rxHead' = (rxHead + 1) % UART_RX_BUFFER_SIZE
    /\ received' = Append(received, b)
    /\ rxOverflowed' = (rxOverflowed \/
                        available_value(rxHead, rxTail) = UART_RX_BUFFER_SIZE - 1)
    /\ UNCHANGED <<hw, rxTail, txRing, began, pc, caller, locals, results,
                   txHist, readLog>>
    /\ UNCHANGED lastSuccess

\* void __UART__::isrRX(void); `b` is the byte the receiver holds in UDRn
isrRX(b, limit) ==
    /\ sreg_I /\ "RXCIE0" \in ucsrb /\ "RXEN0" \in ucsrb
    /\ Len(received) < limit
    /\ rxBuffer' = [rxBuffer EXCEPT ![rxHead] = b]
    /\ rxHead' = (rxHead + 1) % UART_RX_BUFFER_SIZE
    /\ received' = Append(received, b)
    /\ rxOverflowed' = (rxOverflowed \/
                        available_value(rxHead, rxTail) = UART_RX_BUFFER_SIZE - 1)
    /\ UNCHANGED <<hw, rxTail, txRing, began, pc, caller, locals, results,
                   txHist, readLog>>
    /\ UNCHANGED lastSuccess

\* isrUDRE forgetting to advance txTail
isrUDRE_noadvance ==
    /\ sreg_I /\ "UDRIE0" \in ucsrb
    /\ IF txHead # txTail
       THEN /\ udr' = txBuffer[txTail]
            /\ txTail' = txTail
            /\ sent' = Append(sent, txBuffer[txTail])
            /\ UNCHANGED ucsrb
       ELSE /\ ucsrb' = ucsrb \ {"UDRIE0"}
            /\ UNCHANGED <<udr, txTail, sent>>
    /\ UNCHANGED <<sreg_I, ubrrh, ubrrl, ucsra, ucsrc, rxRing, txBuffer, txHead,
                   began, pc, caller, locals, results, written, rxHist>>
    /\ UNCHANGED lastSuccess

\* isrUDRE disabling its interrupt after every byte it sends
isrUDRE_disarm ==
    /\ sreg_I /\ "UDRIE0" \in ucsrb
    /\ IF txHead # txTail
       THEN /\ udr' = txBuffer[txTail]
            /\ txTail' = (txTail + 1) % UART_TX_BUFFER_SIZE
            /\ sent' = Append(sent, txBuffer[txTail])
            /\ ucsrb' = ucsrb \ {"UDRIE0"}
       ELSE /\ ucsrb' = ucsrb \ {"UDRIE0"}
            /\ UNCHANGED <<udr, txTail, sent>>
    /\ UNCHANGED <<sreg_I, ubrrh, ubrrl, ucsra, ucsrc, rxRing, txBuffer, txHead,
                   began, pc, caller, locals, results, written, rxHist>>
    /\ UNCHANGED lastSuccess

\* void __UART__::isrUDRE(void)
isrUDRE ==
    /\ sreg_I /\ "UDRIE0" \in ucsrb
    /\ IF txHead # txTail
       THEN /\ udr' = txBuffer[txTail]
            /\ txTail' = (txTail + 1) % UART_TX_BUFFER_SIZE
            /\ sent' = Append(sent, txBuffer[txTail])
            /\ UNCHANGED ucsrb
       ELSE /\ ucsrb' = ucsrb \ {"UDRIE0"}
            /\ UNCHANGED <<udr, txTail, sent>>
    /\ UNCHANGED <<sreg_I, ubrrh, ubrrl, ucsra, ucsrc, rxRing, txBuffer, txHead,
                   began, pc, caller, locals, results, written, rxHist>>
    /\ UNCHANGED lastSuccess

(* ------------------- mainline: critical sections ----------------------- *)

\* an ATOMIC_BLOCK that saves SREG but leaves interrupts as they are
ATOMIC_enter_nocli == sregSave' = sreg_I /\ sreg_I' = sreg_I

\* ATOMIC_BLOCK(ATOMIC_RESTORESTATE): save SREG and cli() on entry ...
ATOMIC_enter == sregSave' = sreg_I /\ sreg_I' = FALSE
\* an ATOMIC_BLOCK(ATOMIC_FORCEON): interrupts are enabled on exit
ATOMIC_restore_forceon == sreg_I' = TRUE /\ sregSave' = FALSE

\* ... and write the saved SREG back on exit
ATOMIC_restore == sreg_I' = sregSave /\ sregSave' = FALSE

\* a function called by the application returns to it
ReturnToMain(op, val) ==
    pc' = "idle" /\ caller' = "main" /\ lastOp' = op /\ ret' = val

\* the application starts a call that does not return at once
CallFromMain(op) == lastOp' = op /\ ret' = 0

(* --------------------------- mainline: begin --------------------------- *)

\* begin() without its `if (this->began) return (0);`
begin_noguard(baudrate) ==
    /\ pc = "idle"
    /\ began' = 1
    /\ arg' = baudrate
    /\ pc' = "begin_sei"
    /\ CallFromMain("begin")
    /\ UNCHANGED caller
    /\ rdBuf' = <<>>
    /\ UNCHANGED <<hw, rxRing, txRing, head, tmp, sregSave, wq, rdLeft,
                   txHist, rxHist>>
    /\ UNCHANGED lastSuccess

\* const uint8_t __UART__::begin(const uint32_t baudrate): the guard and
\* `this->began = 1`
begin(baudrate) ==
    /\ pc = "idle"
    /\ IF began # 0
       THEN /\ ReturnToMain("begin", 0)
            /\ UNCHANGED <<began, arg>>
       ELSE /\ began' = 1
            /\ arg' = baudrate
            /\ pc' = "begin_sei"
            /\ CallFromMain("begin")
            /\ UNCHANGED caller
    /\ rdBuf' = <<>>
    /\ UNCHANGED <<hw, rxRing, txRing, head, tmp, sregSave, wq, rdLeft,
                   txHist, rxHist>>
    /\ UNCHANGED lastSuccess

\* sei()
begin_sei ==
    /\ pc = "begin_sei"
    /\ sreg_I' = TRUE
    /\ pc' = "begin_cfg"
    /\ UNCHANGED <<regs, rxRing, txRing, began, caller, locals, results,
                   txHist, rxHist>>
    /\ UNCHANGED lastSuccess

\* prescale, UCSRnA, UBRRnH, UBRRnL, UCSRnC (registers no handler touches)
begin_cfg ==
    /\ pc = "begin_cfg"
    /\ ucsra' = IF prescale_first(arg) > 4095 THEN {} ELSE ucsra \cup {"U2X0"}
    /\ ubrrh' = (prescale_value(arg) \div 256) % 256
    /\ ubrrl' = prescale_value(arg) % 256
    /\ ucsrc' = ucsrc \cup {"UCSZ01", "UCSZ00"}
    /\ pc' = "begin_rd"
    /\ UNCHANGED <<sreg_I, ucsrb, udr, rxRing, txRing, began, caller, locals,
                   results, txHist, rxHist>>
    /\ UNCHANGED lastSuccess

\* *this->ucsrb |= ... : the load
begin_rd ==
    /\ pc = "begin_rd"
    /\ tmp' = ucsrb
    /\ pc' = "begin_wr"
    /\ UNCHANGED <<hw, rxRing, txRing, began, caller, head, sregSave, arg, wq,
                   rdLeft, rdBuf, results, txHist, rxHist>>
    /\ UNCHANGED lastSuccess

\* *this->ucsrb |= ... : the store, and return (1)
begin_wr ==
    /\ pc = "begin_wr"
    /\ ucsrb' = tmp \cup {"RXEN0", "RXCIE0", "TXEN0"}
    /\ tmp' = {}
    /\ arg' = 0
    /\ ReturnToMain("begin", 1)
    /\ UNCHANGED <<sreg_I, ubrrh, ubrrl, ucsra, ucsrc, udr, rxRing, txRing,
                   began, head, sregSave, wq, rdLeft, rdBuf, txHist, rxHist>>
    /\ lastSuccess' = "begin"

(* ------------------- mainline: available, flush, isTransmitting -------- *)

\* const uint8_t __UART__::available(void): entry of the atomic block
available ==
    /\ pc = "idle"
    /\ ATOMIC_enter
    /\ pc' = "available_body"
    /\ CallFromMain("available") /\ rdBuf' = <<>>
    /\ UNCHANGED <<regs, rxRing, txRing, began, caller, head, tmp, arg, wq,
                   rdLeft, txHist, rxHist>>
    /\ UNCHANGED lastSuccess

\* read(n, size) calling read() whatever available() returned
available_body_nocheck ==
    /\ pc = "available_body"
    /\ ATOMIC_restore
    /\ IF caller = "read_n"
       THEN /\ pc' = "read"
            /\ UNCHANGED <<caller, results>>
       ELSE ReturnToMain("available", available_value(rxHead, rxTail))
    /\ UNCHANGED <<regs, rxRing, txRing, began, head, tmp, arg, wq, rdLeft,
                   rdBuf, txHist, rxHist>>
    /\ UNCHANGED lastSuccess

\* the body of available() and its return, to the application or to the
\* loop of read(n, size): `if (this->available()) n[i++] = this->read();`
available_body ==
    /\ pc = "available_body"
    /\ ATOMIC_restore
    /\ IF caller = "read_n"
       THEN /\ pc' = IF available_value(rxHead, rxTail) # 0
                     THEN "read" ELSE "read_n_loop"
            /\ UNCHANGED <<caller, results>>
       ELSE ReturnToMain("available", available_value(rxHead, rxTail))
    /\ UNCHANGED <<regs, rxRing, txRing, began, head, tmp, arg, wq, rdLeft,
                   rdBuf, txHist, rxHist>>
    /\ UNCHANGED lastSuccess

\* void __UART__::flush(void): entry of the atomic block
flush ==
    /\ pc = "idle"
    /\ ATOMIC_enter
    /\ pc' = "flush_body"
    /\ CallFromMain("flush") /\ rdBuf' = <<>>
    /\ UNCHANGED <<regs, rxRing, txRing, began, caller, head, tmp, arg, wq,
                   rdLeft, txHist, rxHist>>
    /\ UNCHANGED lastSuccess

\* flush() setting rxTail to rxHead
flush_body_tail ==
    /\ pc = "flush_body"
    /\ rxTail' = rxHead
    /\ ATOMIC_restore
    /\ received' = <<>> /\ readLog' = <<>> /\ rxOverflowed' = FALSE
    /\ IF caller = "end"
       THEN pc' = "end_cfg" /\ caller' = "main" /\ UNCHANGED results
       ELSE ReturnToMain("flush", 0)
    /\ UNCHANGED <<regs, rxBuffer, rxHead, txRing, began, head, tmp, arg, wq,
                   rdLeft, rdBuf, txHist>>
    /\ UNCHANGED lastSuccess

\* flush() resetting rxHead to 0 instead of to rxTail
flush_body_zero ==
    /\ pc = "flush_body"
    /\ rxHead' = 0
    /\ ATOMIC_restore
    /\ received' = <<>> /\ readLog' = <<>> /\ rxOverflowed' = FALSE
    /\ IF caller = "end"
       THEN pc' = "end_cfg" /\ caller' = "main" /\ UNCHANGED results
       ELSE ReturnToMain("flush", 0)
    /\ UNCHANGED <<regs, rxBuffer, rxTail, txRing, began, head, tmp, arg, wq,
                   rdLeft, rdBuf, txHist>>
    /\ UNCHANGED lastSuccess

\* this->rxHead = this->rxTail, and return to the application or to end()
flush_body ==
    /\ pc = "flush_body"
    /\ rxHead' = rxTail
    /\ ATOMIC_restore
    /\ received' = <<>> /\ readLog' = <<>> /\ rxOverflowed' = FALSE
    /\ IF caller = "end"
       THEN pc' = "end_cfg" /\ caller' = "main" /\ UNCHANGED results
       ELSE ReturnToMain("flush", 0)
    /\ UNCHANGED <<regs, rxBuffer, rxTail, txRing, began, head, tmp, arg, wq,
                   rdLeft, rdBuf, txHist>>
    /\ UNCHANGED lastSuccess

\* const uint8_t __UART__::isTransmitting(void)
isTransmitting ==
    /\ pc = "idle"
    /\ ReturnToMain("isTransmitting", isTransmitting_value(ucsrb))
    /\ rdBuf' = <<>>
    /\ UNCHANGED <<hw, rxRing, txRing, began, head, tmp, sregSave, arg, wq,
                   rdLeft, txHist, rxHist>>
    /\ UNCHANGED lastSuccess

(* --------------------------- mainline: read ---------------------------- *)

\* read() without its emptiness check
read_first_nocheck ==
    /\ pc' = "read_enter"
    /\ IF caller = "read_n"
       THEN UNCHANGED <<results, rdBuf>>
       ELSE CallFromMain("read") /\ rdBuf' = <<>>
    /\ UNCHANGED <<caller, rdLeft>>

\* first statement of read(): if (this->rxHead == this->rxTail) return (0);
\* rxTail is written by the mainline only, so the two loads act as one.
read_first ==
    IF rxHead = rxTail
    THEN IF caller = "read_n"
         THEN /\ rdBuf' = Append(rdBuf, 0)
              /\ rdLeft' = rdLeft - 1
              /\ pc' = "read_n_loop" /\ caller' = "main"
              /\ UNCHANGED results
         ELSE ReturnToMain("read", 0) /\ rdBuf' = <<>> /\ UNCHANGED rdLeft
    ELSE /\ pc' = "read_enter"
         /\ IF caller = "read_n"
            THEN UNCHANGED <<results, rdBuf>>
            ELSE CallFromMain("read") /\ rdBuf' = <<>>
         /\ UNCHANGED <<caller, rdLeft>>

\* const uint8_t __UART__::read(void) called by the application, or by
\* read(n, size) (pc = "read")
read ==
    /\ pc = "idle" \/ pc = "read"
    /\ read_first
    /\ UNCHANGED <<hw, rxRing, txRing, began, head, tmp, sregSave, arg, wq,
                   txHist, rxHist>>
    /\ UNCHANGED lastSuccess

\* entry of the atomic block of read()
read_enter ==
    /\ pc = "read_enter"
    /\ ATOMIC_enter
    /\ pc' = "read_body"
    /\ UNCHANGED <<regs, rxRing, txRing, began, caller, head, tmp, arg, wq,
                   rdLeft, rdBuf, results, txHist, rxHist>>
    /\ UNCHANGED lastSuccess

\* read() taking the byte after it has advanced rxTail
read_body_offbyone ==
    /\ pc = "read_body"
    /\ rxTail' = (rxTail + 1) % UART_RX_BUFFER_SIZE
    /\ ATOMIC_restore
    /\ readLog' = Append(readLog, rxBuffer[(rxTail + 1) % UART_RX_BUFFER_SIZE])
    /\ IF caller = "read_n"
       THEN /\ rdBuf' = Append(rdBuf, rxBuffer[(rxTail + 1) % UART_RX_BUFFER_SIZE])
            /\ rdLeft' = rdLeft - 1
            /\ pc' = "read_n_loop" /\ caller' = "main"
            /\ UNCHANGED results
       ELSE ReturnToMain("read", rxBuffer[(rxTail + 1) % UART_RX_BUFFER_SIZE]) /\ UNCHANGED <<rdBuf, rdLeft>>
    /\ UNCHANGED <<regs, rxBuffer, rxHead, txRing, began, head, tmp, arg, wq,
                   txHist, received, rxOverflowed>>
    /\ UNCHANGED lastSuccess

\* byte = rxBuffer[rxTail]; rxTail = (rxTail + 1) % SIZE; return (byte)
read_body ==
    /\ pc = "read_body"
    /\ rxTail' = (rxTail + 1) % UART_RX_BUFFER_SIZE
    /\ ATOMIC_restore
    /\ readLog' = Append(readLog, rxBuffer[rxTail])
    /\ IF caller = "read_n"
       THEN /\ rdBuf' = Append(rdBuf, rxBuffer[rxTail])
            /\ rdLeft' = rdLeft - 1
            /\ pc' = "read_n_loop" /\ caller' = "main"
            /\ UNCHANGED results
       ELSE ReturnToMain("read", rxBuffer[rxTail]) /\ UNCHANGED <<rdBuf, rdLeft>>
    /\ UNCHANGED <<regs, rxBuffer, rxHead, txRing, began, head, tmp, arg, wq,
                   txHist, received, rxOverflowed>>
    /\ UNCHANGED lastSuccess

\* void __UART__::read(uint8_t* n, const uint8_t size): the call
read_n(size) ==
    /\ pc = "idle"
    /\ arg' = size
    /\ rdLeft' = size
    /\ rdBuf' = <<>>
    /\ pc' = "read_n_loop"
    /\ CallFromMain("read_n")
    /\ UNCHANGED <<hw, rxRing, txRing, began, caller, head, tmp, sregSave,
                   wq, txHist, rxHist>>
    /\ UNCHANGED lastSuccess

\* for (i = 0; i < size;) if (this->available()) ... : the loop test and
\* the entry of available()
read_n_loop ==
    /\ pc = "read_n_loop"
    /\ IF rdLeft = 0
       THEN /\ ReturnToMain("read_n", 0)
            /\ arg' = 0
            /\ UNCHANGED <<sreg_I, sregSave>>
       ELSE /\ ATOMIC_enter
            /\ pc' = "available_body" /\ caller' = "read_n"
            /\ UNCHANGED <<results, arg>>
    /\ UNCHANGED <<regs, rxRing, txRing, began, head, tmp, wq, rdLeft,
                   rdBuf, txHist, rxHist>>
    /\ UNCHANGED lastSuccess

(* --------------------------- mainline: write --------------------------- *)

\* write(n) computing `head` without the `% UART_TX_BUFFER_SIZE`
write_first_nomod(n) ==
    /\ head' = (txHead + 1) % 256
    /\ arg' = n
    /\ pc' = "write_wait"

\* first statement of write(n):
\* const uint8_t head = (this->txHead + 1) % UART_TX_BUFFER_SIZE;
write_first(n) ==
    /\ head' = (txHead + 1) % UART_TX_BUFFER_SIZE
    /\ arg' = n
    /\ pc' = "write_wait"

\* void __UART__::write(const uint8_t n) called by the application
write(n, limit) ==
    /\ pc = "idle"
    /\ Len(written) < limit
    /\ written' = Append(written, n)
    /\ write_first(n)
    /\ CallFromMain("write") /\ rdBuf' = <<>>
    /\ UNCHANGED <<hw, rxRing, txRing, began, caller, tmp, sregSave, wq, rdLeft,
                   sent, rxHist>>
    /\ UNCHANGED lastSuccess

\* write(n) without its wait for a free slot
write_wait_nocheck ==
    /\ pc = "write_wait"
    /\ pc' = "write_store"
    /\ UNCHANGED <<hw, rxRing, txRing, began, caller, locals, results, txHist,
                   rxHist>>
    /\ UNCHANGED lastSuccess

\* while (head == this->txTail);
write_wait ==
    /\ pc = "write_wait"
    /\ IF head = txTail THEN pc' = "write_wait" ELSE pc' = "write_store"
    /\ UNCHANGED <<hw, rxRing, txRing, began, caller, locals, results, txHist,
                   rxHist>>
    /\ UNCHANGED lastSuccess

\* write(n) storing its byte into the slot after txHead
write_store_athead ==
    /\ pc = "write_store"
    /\ txBuffer' = [txBuffer EXCEPT ![head] = arg]
    /\ pc' = "write_head"
    /\ UNCHANGED <<hw, rxRing, txHead, txTail, began, caller, locals, results,
                   txHist, rxHist>>
    /\ UNCHANGED lastSuccess

\* write(n) advancing txHead where it should store its byte
write_store_publish ==
    /\ pc = "write_store"
    /\ txHead' = head
    /\ pc' = "write_head"
    /\ UNCHANGED <<hw, rxRing, txBuffer, txTail, began, caller, locals, results,
                   txHist, rxHist>>
    /\ UNCHANGED lastSuccess

\* this->txBuffer[this->txHead] = n;
write_store ==
    /\ pc = "write_store"
    /\ txBuffer' = [txBuffer EXCEPT ![txHead] = arg]
    /\ pc' = "write_head"
    /\ UNCHANGED <<hw, rxRing, txHead, txTail, began, caller, locals, results,
                   txHist, rxHist>>
    /\ UNCHANGED lastSuccess

\* this->txHead = head;
write_head ==
    /\ pc = "write_head"
    /\ txHead' = head
    /\ pc' = "write_rd"
    /\ UNCHANGED <<hw, rxRing, txBuffer, txTail, began, caller, locals, results,
                   txHist, rxHist>>
    /\ UNCHANGED lastSuccess

\* *this->ucsrb = *this->ucsrb | (1 << UDRIE0) : the load
write_rd ==
    /\ pc = "write_rd"
    /\ tmp' = ucsrb
    /\ pc' = "write_wr"
    /\ UNCHANGED <<hw, rxRing, txRing, began, caller, head, sregSave, arg, wq,
                   rdLeft, rdBuf, results, txHist, rxHist>>
    /\ UNCHANGED lastSuccess

\* write(n) storing UCSRnB back without setting UDRIE0
write_wr_noarm ==
    /\ pc = "write_wr"
    /\ ucsrb' = tmp
    /\ tmp' = {} /\ head' = 0 /\ arg' = 0
    /\ IF caller = "write_n"
       THEN pc' = "write_n_loop" /\ caller' = "main" /\ UNCHANGED results
       ELSE ReturnToMain("write", 0)
    /\ UNCHANGED <<sreg_I, ubrrh, ubrrl, ucsra, ucsrc, udr, rxRing, txRing,
                   began, sregSave, wq, rdLeft, rdBuf, txHist, rxHist>>
    /\ UNCHANGED lastSuccess

\* write(n) storing (1 << UDRIE0) alone into UCSRnB
write_wr_clobber ==
    /\ pc = "write_wr"
    /\ ucsrb' = {"UDRIE0"}
    /\ tmp' = {} /\ head' = 0 /\ arg' = 0
    /\ IF caller = "write_n"
       THEN pc' = "write_n_loop" /\ caller' = "main" /\ UNCHANGED results
       ELSE ReturnToMain("write", 0)
    /\ UNCHANGED <<sreg_I, ubrrh, ubrrl, ucsra, ucsrc, udr, rxRing, txRing,
                   began, sregSave, wq, rdLeft, rdBuf, txHist, rxHist>>
    /\ UNCHANGED lastSuccess

\* *this->ucsrb = *this->ucsrb | (1 << UDRIE0) : the store, and the return
\* to the application or to the loop of write(n, size)
write_wr ==
    /\ pc = "write_wr"
    /\ ucsrb' = tmp \cup {"UDRIE0"}
    /\ tmp' = {} /\ head' = 0 /\ arg' = 0
    /\ IF caller = "write_n"
       THEN pc' = "write_n_loop" /\ caller' = "main" /\ UNCHANGED results
       ELSE ReturnToMain("write", 0)
    /\ UNCHANGED <<sreg_I, ubrrh, ubrrl, ucsra, ucsrc, udr, rxRing, txRing,
                   began, sregSave, wq, rdLeft, rdBuf, txHist, rxHist>>
    /\ UNCHANGED lastSuccess

\* void __UART__::write(const uint8_t* n, const uint8_t size): the call
write_n(s, limit) ==
    /\ pc = "idle"
    /\ Len(written) + Len(s) <= limit
    /\ written' = written \o s
    /\ wq' = s
    /\ pc' = "write_n_loop"
    /\ CallFromMain("write_n") /\ rdBuf' = <<>>
    /\ UNCHANGED <<hw, rxRing, txRing, began, caller, head, tmp, sregSave, arg,
                   rdLeft, sent, rxHist>>
    /\ UNCHANGED lastSuccess

\* for (p = n; p < (n + size); p++) this->write(*p): the loop test and the
\* first statement of write(*p)
write_n_loop ==
    /\ pc = "write_n_loop"
    /\ IF wq = <<>>
       THEN /\ ReturnToMain("write_n", 0)
            /\ UNCHANGED <<head, arg, wq>>
       ELSE /\ write_first(Head(wq))
            /\ wq' = Tail(wq)
            /\ caller' = "write_n"
            /\ UNCHANGED results
    /\ UNCHANGED <<hw, rxRing, txRing, began, tmp, sregSave, rdLeft, rdBuf,
                   txHist, rxHist>>
    /\ UNCHANGED lastSuccess

(* ---------------------------- mainline: end ---------------------------- *)

\* end() without its `if (!this->began) return (0);`
end_noguard ==
    /\ pc = "idle"
    /\ began' = 0
    /\ pc' = "end_wait"
    /\ CallFromMain("end")
    /\ UNCHANGED caller
    /\ rdBuf' = <<>>
    /\ UNCHANGED <<hw, rxRing, txRing, head, tmp, sregSave, arg, wq, rdLeft,
                   txHist, rxHist>>
    /\ UNCHANGED lastSuccess

\* end() forgetting `this->began = 0`
end_keepflag ==
    /\ pc = "idle"
    /\ IF began = 0
       THEN /\ ReturnToMain("end", 0)
            /\ UNCHANGED began
       ELSE /\ began' = began
            /\ pc' = "end_wait"
            /\ CallFromMain("end")
            /\ UNCHANGED caller
    /\ rdBuf' = <<>>
    /\ UNCHANGED <<hw, rxRing, txRing, head, tmp, sregSave, arg, wq, rdLeft,
                   txHist, rxHist>>
    /\ UNCHANGED lastSuccess

\* const uint8_t __UART__::end(void): the guard and `this->began = 0`
end ==
    /\ pc = "idle"
    /\ IF began = 0
       THEN /\ ReturnToMain("end", 0)
            /\ UNCHANGED began
       ELSE /\ began' = 0
            /\ pc' = "end_wait"
            /\ CallFromMain("end")
            /\ UNCHANGED caller
    /\ rdBuf' = <<>>
    /\ UNCHANGED <<hw, rxRing, txRing, head, tmp, sregSave, arg, wq, rdLeft,
                   txHist, rxHist>>
    /\ UNCHANGED lastSuccess

\* end() without its `while (this->isTransmitting());`
end_wait_nowait ==
    /\ pc = "end_wait"
    /\ ATOMIC_enter
    /\ pc' = "flush_body" /\ caller' = "end"
    /\ UNCHANGED <<regs, rxRing, txRing, began, head, tmp, arg, wq, rdLeft,
                   rdBuf, results, txHist, rxHist>>
    /\ UNCHANGED lastSuccess

\* while (this->isTransmitting()); and, once it is false, the call of
\* flush() up to the entry of its atomic block
end_wait ==
    /\ pc = "end_wait"
    /\ IF isTransmitting_value(ucsrb) # 0
       THEN UNCHANGED <<pc, caller, sreg_I, sregSave>>
       ELSE /\ ATOMIC_enter
            /\ pc' = "flush_body" /\ caller' = "end"
    /\ UNCHANGED <<regs, rxRing, txRing, began, head, tmp, arg, wq, rdLeft,
                   rdBuf, results, txHist, rxHist>>
    /\ UNCHANGED lastSuccess

\* UBRRnH = 0, UBRRnL = 0, UCSRnA = 0, UCSRnC &= ~(UCSZ01 | UCSZ00)
\* (registers no handler touches)
end_cfg ==
    /\ pc = "end_cfg"
    /\ ubrrh' = 0 /\ ubrrl' = 0 /\ ucsra' = {}
    /\ ucsrc' = ucsrc \ {"UCSZ01", "UCSZ00"}
    /\ pc' = "end_rd"
    /\ UNCHANGED <<sreg_I, ucsrb, udr, rxRing, txRing, began, caller, locals,
                   results, txHist, rxHist>>
    /\ UNCHANGED lastSuccess

\* *this->ucsrb &= ~(...) : the load
end_rd ==
    /\ pc = "end_rd"
    /\ tmp' = ucsrb
    /\ pc' = "end_wr"
    /\ UNCHANGED <<hw, rxRing, txRing, began, caller, head, sregSave, arg, wq,
                   rdLeft, rdBuf, results, txHist, rxHist>>
    /\ UNCHANGED lastSuccess

\* end() leaving RXCIE0 out of the mask it clears
end_wr_keeprxcie ==
    /\ pc = "end_wr"
    /\ ucsrb' = tmp \ {"RXEN0", "TXEN0", "UDRIE0"}
    /\ tmp' = {}
    /\ ReturnToMain("end", 1)
    /\ UNCHANGED <<sreg_I, ubrrh, ubrrl, ucsra, ucsrc, udr, rxRing, txRing,
                   began, head, sregSave, arg, wq, rdLeft, rdBuf, txHist, rxHist>>
    /\ lastSuccess' = "end"

\* *this->ucsrb &= ~(...) : the store, and return (1)
end_wr ==
    /\ pc = "end_wr"
    /\ ucsrb' = tmp \ {"RXEN0", "RXCIE0", "TXEN0", "UDRIE0"}
    /\ tmp' = {}
    /\ ReturnToMain("end", 1)
    /\ UNCHANGED <<sreg_I, ubrrh, ubrrl, ucsra, ucsrc, udr, rxRing, txRing,
                   began, head, sregSave, arg, wq, rdLeft, rdBuf, txHist, rxHist>>
    /\ lastSuccess' = "end"

(* --------------------------- specifications ---------------------------- *)

BulkArgs == UNION {[1..k -> Byte] : k \in 0..MaxBulk}

\* the specification of both directions together moves one byte value only
JointByte == {MaxByte}
JointBulkArgs == UNION {[1..k -> JointByte] : k \in 0..MaxBulk}

Lifecycle == begin_sei \/ begin_cfg \/ begin_rd \/ begin_wr
             \/ end \/ end_wait \/ flush_body \/ end_cfg \/ end_rd \/ end_wr

TxSteps == write_wait \/ write_store \/ write_head \/ write_rd \/ write_wr
           \/ write_n_loop \/ isTransmitting \/ isrUDRE

RxSteps == available \/ available_body \/ flush \/ read \/ read_enter
           \/ read_body \/ read_n_loop

\* both directions together
Next ==
    \/ \E b \in BaudRates : begin(b)
    \/ Lifecycle
    \/ \E n \in JointByte : write(n, JointWrites)
    \/ \E s \in JointBulkArgs : write_n(s, JointWrites)
    \/ TxSteps
    \/ \E b \in JointByte : isrRX(b, JointRecv)
    \/ \E size \in 0..MaxBulk : read_n(size)
    \/ RxSteps

Spec == Init /\ [][Next]_vars

\* the transmit direction
NextTX ==
    \/ \E b \in BaudRates : begin(b)
    \/ Lifecycle
    \/ \E n \in Byte : write(n, MaxWrites)
    \/ \E s \in BulkArgs : write_n(s, MaxWrites)
    \/ TxSteps

SpecTX == Init /\ [][NextTX]_vars

\* the receive direction
NextRX ==
    \/ \E b \in BaudRates : begin(b)
    \/ Lifecycle
    \/ \E b \in Byte : isrRX(b, MaxRecv)
    \/ \E size \in 0..MaxBulk : read_n(size)
    \/ RxSteps

SpecRX == Init /\ [][NextRX]_vars

\* the steps the mainline takes inside begin(), end() and write() once the
\* application has called them
MainBodyTX ==
    \/ begin_sei \/ begin_cfg \/ begin_rd \/ begin_wr
    \/ end_wait \/ flush_body \/ end_cfg \/ end_rd \/ end_wr
    \/ write_wait \/ write_store \/ write_head \/ write_rd \/ write_wr
    \/ write_n_loop

\* the transmit direction with one byte value
NextTXFair ==
    \/ \E b \in BaudRates : begin(b)
    \/ Lifecycle
    \/ \E n \in JointByte : write(n, MaxWrites)
    \/ \E s \in JointBulkArgs : write_n(s, MaxWrites)
    \/ TxSteps

\* ... under the scheduling of the processor: a call in progress goes on
\* executing, and the data-register-empty interrupt is served while it is
\* enabled.  The application need not call anything.
SpecTXFair ==
    Init /\ [][NextTXFair]_vars /\ WF_vars(MainBodyTX) /\ WF_vars(isrUDRE)

\* the steps the mainline takes inside begin(), end(), available(), flush()
\* and read() once the application has called them
MainBodyRX ==
    \/ begin_sei \/ begin_cfg \/ begin_rd \/ begin_wr
    \/ end_wait \/ flush_body \/ end_cfg \/ end_rd \/ end_wr
    \/ available_body \/ (pc = "read" /\ read) \/ read_enter \/ read_body
    \/ read_n_loop

\* the receive direction under the scheduling of the processor: a call in
\* progress goes on executing.  Nothing is assumed of the arrival of bytes.
SpecRXFair == Init /\ [][NextRX]_vars /\ WF_vars(MainBodyRX)

\* begin() over a sweep of baud rates: the usual ones, the ones around the
\* 0x0FFF limit of the first divisor (488, 489), and the ends of the range
\* where a quotient exceeds 16 bits (1, 15, 30, 31) or is 0 (4000001)
BaudSweep == {1, 15, 30, 31, 110, 300, 488, 489, 1200, 2400, 4800, 9600,
              14400, 19200, 38400, 57600, 115200, 250000, 500000, 1000000,
              2000000, 4000000, 4000001}

NextBaud ==
    \/ \E b \in BaudSweep : begin(b)
    \/ Lifecycle

SpecBaud == Init /\ [][NextBaud]_vars

\* the end-to-end scenario: begin(9600), write 0x41, 0x42, 0x43, and end()
\* once the third write has returned, whether or not isrUDRE has already
\* stored the three bytes into the data register; meanwhile the line may
\* deliver a byte
Scenario == <<65, 66, 67>>

NextE2E ==
    \/ lastOp = "none" /\ begin(9600)
    \/ begin_sei \/ begin_cfg \/ begin_rd \/ begin_wr
    \/ /\ lastSuccess = "begin" /\ Len(written) < Len(Scenario)
       /\ write(Scenario[Len(written) + 1], Len(Scenario))
    \/ write_wait \/ write_store \/ write_head \/ write_rd \/ write_wr
    \/ isrUDRE
    \/ \E b \in Byte : isrRX(b, 1)
    \/ lastOp = "write" /\ Len(written) = Len(Scenario) /\ end
    \/ end_wait \/ flush_body \/ end_cfg \/ end_rd \/ end_wr

\* the processor never halts: while a step of the scenario or a handler is
\* possible, one of them is taken
SpecE2E == Init /\ [][NextE2E]_vars /\ WF_vars(NextE2E)

(* ------------------------------ claims --------------------------------- *)

\* a step of the mainline that the application can observe (handlers change
\* neither the position of the mainline nor the result of its last call)
MainStep == <<pc, lastOp, ret>>' # <<pc, lastOp, ret>>

\* the bytes passed to write() that the call in progress has not stored yet
TxPending ==
    (IF pc \in {"write_wait", "write_store", "write_head"} THEN <<arg>> ELSE <<>>)
    \o wq

TxUnsent == Window(txBuffer, txTail, txHead, UART_TX_BUFFER_SIZE)
RxUnread == Window(rxBuffer, rxTail, rxHead, UART_RX_BUFFER_SIZE)

\* C1: TX is FIFO under preemption.  At every moment the bytes stored into
\* the data register are a prefix of the bytes passed to write(), and the
\* rest of them are exactly the unsent bytes of the ring followed by the
\* bytes the call in progress has still to store: nothing is lost,
\* duplicated or reordered.
C1_TxFifo ==
    /\ IsPrefix(sent, written)
    /\ written = sent \o TxUnsent \o TxPending

\* a bulk write was preempted, the ring has wrapped and all bytes went out
C1_Witness ==
    /\ Len(sent) = MaxWrites
    /\ sent[1] # sent[2]
    /\ lastOp = "write_n" /\ pc = "idle"

\* C2: RX is FIFO while no push has happened with SIZE-1 bytes unread: the
\* bytes returned by read() on a non-empty ring, followed by the unread bytes
\* of the ring, are the received bytes in arrival order.
C2_RxFifo ==
    ~rxOverflowed =>
        /\ IsPrefix(readLog, received)
        /\ received = readLog \o RxUnread

\* more bytes than the ring holds were received and read back in order
C2_Witness ==
    /\ ~rxOverflowed
    /\ Len(readLog) = MaxRecv
    /\ readLog = received
    /\ readLog[1] # readLog[2]

C4_NoOverwrite ==
    /\ pc \in {"write_store", "write_head"} =>
           /\ head = (txHead + 1) % UART_TX_BUFFER_SIZE
           /\ head # txTail
    /\ Len(written) - Len(sent) - Len(TxPending) <= UART_TX_BUFFER_SIZE - 1

\* write() is waiting on a full ring that isrUDRE has already drained once
C4_Witness ==
    /\ pc = "write_wait" /\ head = txTail
    /\ Len(sent) > 0
    /\ Len(TxUnsent) = UART_TX_BUFFER_SIZE - 1

\* C5: begin() while Running returns 0 and changes no register, not the
\* global interrupt flag, not the lifecycle flag and neither ring, whatever
\* the baud rate.
C5_BeginWhileRunning ==
    [][(pc = "idle" /\ began # 0 /\ lastOp' = "begin" /\ MainStep) =>
           /\ pc' = "idle" /\ ret' = 0
           /\ UNCHANGED <<hw, began, rxRing, txRing>>
      ]_vars

\* a second begin() has failed with bytes in both rings
C5_Witness ==
    /\ pc = "idle" /\ lastOp = "begin" /\ ret = 0
    /\ began = 1
    /\ rxHead # rxTail /\ txHead # txTail

\* C6: end() while Stopped returns 0 at once: no register write, no wait on
\* isTransmitting(), no flush of the RX ring, and the flag stays Stopped.
C6_EndWhileStopped ==
    [][(pc = "idle" /\ began = 0 /\ lastOp' = "end" /\ MainStep) =>
           /\ pc' = "idle" /\ ret' = 0
           /\ UNCHANGED <<hw, began, rxRing, txRing, rxHist>>
      ]_vars

\* end() has failed while the transmit interrupt was enabled with bytes queued
C6_Witness ==
    /\ pc = "idle" /\ lastOp = "end" /\ ret = 0
    /\ began = 0
    /\ "UDRIE0" \in ucsrb /\ txHead # txTail

BeginBody == {"begin_sei", "begin_cfg", "begin_rd", "begin_wr"}
EndBody == {"end_wait", "end_cfg", "end_rd", "end_wr"}

\* C7: lifecycle state machine.  begin() succeeds iff called while Stopped
\* and leaves the flag Running; end() succeeds iff called while Running and
\* leaves it Stopped; successful begins and ends alternate; nothing but a
\* call of begin()/end() changes the flag.
C7_Lifecycle ==
    [][/\ (began' # began) =>
              /\ pc = "idle" /\ lastOp' \in {"begin", "end"}
       /\ (pc = "idle" /\ lastOp' = "begin" /\ MainStep) =>
              IF began = 0 THEN pc' = "begin_sei" /\ began' = 1
              ELSE pc' = "idle" /\ ret' = 0 /\ began' = began
       /\ (pc = "idle" /\ lastOp' = "end" /\ MainStep) =>
              IF began # 0 THEN pc' = "end_wait" /\ began' = 0
              ELSE pc' = "idle" /\ ret' = 0 /\ began' = began
       /\ (pc \in BeginBody /\ pc' = "idle") =>
              /\ lastOp' = "begin" /\ ret' = 1 /\ began' = 1
              /\ lastSuccess # "begin" /\ lastSuccess' = "begin"
       /\ (pc \in EndBody /\ pc' = "idle") =>
              /\ lastOp' = "end" /\ ret' = 1 /\ began' = 0
              /\ lastSuccess = "begin" /\ lastSuccess' = "end"
       /\ (pc' = "idle" /\ lastOp' \in {"begin", "end"} /\ ret' = 1 /\ MainStep) =>
              pc \in BeginBody \cup EndBody
      ]_vars

\* an end() has succeeded after a successful begin(), leaving the flag Stopped
C7_Witness ==
    /\ pc = "idle" /\ lastOp = "end" /\ ret = 1
    /\ began = 0 /\ lastSuccess = "end"

\* C8: flush() leaves the RX ring empty: once it has returned, and until
\* isrRX next pushes a byte, available() computes 0 and read() finds
\* rxHead = rxTail and returns its sentinel.
C8_FlushEmpties ==
    (pc = "idle" /\ lastOp = "flush" /\ received = <<>>) =>
        /\ available_value(rxHead, rxTail) = 0
        /\ rxHead = rxTail

\* flush() has returned with the indices away from 0
C8_Witness ==
    /\ pc = "idle" /\ lastOp = "flush" /\ received = <<>>
    /\ rxTail # 0

\* C9: read() on an empty RX ring returns 0 and changes nothing.
C9_ReadEmpty ==
    [][(pc = "idle" /\ lastOp' = "read" /\ rxHead = rxTail /\ MainStep) =>
           /\ pc' = "idle" /\ ret' = 0
           /\ UNCHANGED <<hw, began, rxRing, txRing, rxHist>>
      ]_vars

\* read() has returned 0 on an empty ring whose next slot holds a stale
\* non-zero byte
C9_Witness ==
    /\ pc = "idle" /\ lastOp = "read" /\ ret = 0
    /\ rxHead = rxTail /\ rxBuffer[rxTail] # 0
    /\ received = <<>> /\ readLog = <<>>

\* N + 1 pushes into the empty ring and no read since
RxOverrun ==
    /\ Len(received) = UART_RX_BUFFER_SIZE + 1
    /\ readLog = <<>>
    /\ pc \notin {"read_enter", "read_body"}

\* C10 as stated: after N pushes and one more, with no read in between,
\* available() is N-1 and only the oldest byte is lost.
C10_AsStated ==
    RxOverrun =>
        /\ available_value(rxHead, rxTail) = UART_RX_BUFFER_SIZE - 1
        /\ RxUnread = SubSeq(received, 3, UART_RX_BUFFER_SIZE + 1)

\* C10 amended: the N-th push wraps rxHead onto rxTail, so the ring reads as
\* empty; after one more push available() is 1 and the only byte read()
\* can still return is the newest one.
C10_RxOverrun ==
    RxOverrun =>
        /\ available_value(rxHead, rxTail) = 1
        /\ RxUnread = <<received[UART_RX_BUFFER_SIZE + 1]>>

C10_Witness ==
    /\ RxOverrun
    /\ rxOverflowed
    /\ received[1] # received[UART_RX_BUFFER_SIZE + 1]

\* the divisor the baud registers hold: (UBRRnH << 8) | UBRRnL
BaudRegs == ubrrh * 256 + ubrrl

\* C11: baud divisor selection.  For every baud rate B > 0 a successful
\* begin(B) writes d1 = (F_CPU / (4 B) - 1) / 2 with double speed enabled when
\* d1 <= 0xFFF, and d2 = (F_CPU / (8 B) - 1) / 2 with double speed disabled
\* otherwise; the 16-bit value of the baud registers is the chosen divisor.
C11_BaudDivisor ==
    (pc \in {"begin_rd", "begin_wr"}) =>
        LET d1 == ((F_CPU \div (4 * arg)) - 1) \div 2
            d2 == ((F_CPU \div (8 * arg)) - 1) \div 2
        IN  IF d1 <= 4095
            THEN BaudRegs = d1 /\ "U2X0" \in ucsra
            ELSE BaudRegs = d2 /\ "U2X0" \notin ucsra

\* C12: end-to-end scenario.  begin(9600) succeeds; the bytes isrUDRE stores
\* into the data register after write(0x41), write(0x42), write(0x43) are
\* exactly 0x41, 0x42, 0x43 in that order; the end() issued after the third
\* of them returns 1, and it does return.
C12_EndToEnd ==
    /\ [](/\ (pc = "idle" /\ lastOp = "begin") => ret = 1
          /\ IsPrefix(sent, Scenario)
          /\ (pc = "idle" /\ lastOp = "end") => (ret = 1 /\ sent = Scenario))
    /\ <>(pc = "idle" /\ lastOp = "end" /\ ret = 1)

\* the three writes have returned before isrUDRE ran, three invocations of
\* isrUDRE have stored the three bytes, and end() has returned 1
C12_Witness ==
    /\ pc = "idle" /\ lastOp = "end" /\ ret = 1
    /\ sent = Scenario /\ udr = Scenario[3]
    /\ began = 0 /\ "TXEN0" \notin ucsrb

\* C13: draining always resumes.  While Running, with isrUDRE served while
\* it is enabled, every byte passed to write() is eventually stored into the
\* data register, and a write() that found the TX ring full eventually
\* returns.
C13_Draining ==
    /\ \A k \in 1..MaxWrites :
           (began = 1 /\ Len(written) >= k) ~> (Len(sent) >= k)
    /\ (began = 1 /\ pc = "write_wait" /\ head = txTail)
           ~> (pc \in {"idle", "write_n_loop"})

\* while Running a write() waits on a full ring that isrUDRE is draining
C13_Witness ==
    /\ began = 1 /\ sreg_I /\ "UDRIE0" \in ucsrb
    /\ pc = "write_wait" /\ head = txTail
    /\ Len(sent) > 0

\* end() is past its wait on isTransmitting()
EndPastWait ==
    (pc = "flush_body" /\ caller = "end") \/ pc \in {"end_cfg", "end_rd", "end_wr"}

EnableBits == {"RXEN0", "RXCIE0", "TXEN0", "UDRIE0"}

C15_StopDiscardsRx ==
    (began = 0 /\ lastSuccess = "end") =>
        /\ available_value(rxHead, rxTail) = 0
        /\ rxHead = rxTail

\* C16: postcondition of a successful begin().  When it returns 1 the global
\* interrupt flag is set, UCSZ01 and UCSZ00 are set in UCSRnC and RXEN0,
\* RXCIE0 and TXEN0 in UCSRnB; no step of begin() changes the UDRIE0 bit or
\* either ring.
C16_BeginPost ==
    [][/\ ((pc = "idle" /\ began = 0 /\ lastOp' = "begin" /\ MainStep)
            \/ (pc \in BeginBody /\ pc' # pc)) =>
              /\ ("UDRIE0" \in ucsrb') = ("UDRIE0" \in ucsrb)
              /\ UNCHANGED <<rxRing, txRing>>
       /\ (pc = "begin_wr" /\ pc' = "idle") =>
              /\ ret' = 1 /\ sreg_I'
              /\ {"UCSZ01", "UCSZ00"} \subseteq ucsrc'
              /\ {"RXEN0", "RXCIE0", "TXEN0"} \subseteq ucsrb'
      ]_vars

\* C17: postcondition of a successful end().  When it has returned 1 both
\* baud registers and UCSRnA are 0, UCSZ01/UCSZ00 are clear in UCSRnC and
\* RXEN0, RXCIE0, TXEN0 and UDRIE0 are clear in UCSRnB, so neither isrRX nor
\* isrUDRE can run.
C17_EndPost ==
    (pc = "idle" /\ lastOp = "end" /\ ret = 1) =>
        /\ ubrrh = 0 /\ ubrrl = 0 /\ ucsra = {}
        /\ ucsrc \cap {"UCSZ01", "UCSZ00"} = {}
        /\ ucsrb \cap EnableBits = {}
        /\ ~ENABLED isrUDRE
        /\ ~ENABLED (\E b \in Byte : isrRX(b, Len(received) + 1))

\* end() has returned 1 with global interrupts left on, after begin() had
\* set the baud registers and bytes had been sent and received
C17_Witness ==
    /\ pc = "idle" /\ lastOp = "end" /\ ret = 1
    /\ sreg_I /\ ucsrb = {} /\ BaudRegs = 0
    /\ Len(sent) > 0 /\ rxTail # 0

\* C18: isTransmitting() is a pure query.  It returns 1 when UDRIE0 is set
\* in UCSRnB at the call and 0 otherwise, at once, and changes no register,
\* no ring, no index and not the lifecycle flag.
C18_IsTransmittingPure ==
    [][(pc = "idle" /\ lastOp' = "isTransmitting" /\ MainStep) =>
           /\ pc' = "idle"
           /\ ret' = (IF "UDRIE0" \in ucsrb THEN 1 ELSE 0)
           /\ UNCHANGED <<hw, rxRing, txRing, began, lastSuccess>>
      ]_vars

\* isTransmitting() has returned 1 while Running with a byte still queued
C18_Witness ==
    /\ pc = "idle" /\ lastOp = "isTransmitting" /\ ret = 1
    /\ began = 1 /\ "UDRIE0" \in ucsrb /\ txHead # txTail

\* write(n) is in its wait loop with the TX ring full
WriteWaiting == pc = "write_wait" /\ head = txTail

\* read(n, size) is in its loop, short of bytes, with the RX ring empty
ReadWaiting ==
    /\ rdLeft > 0 /\ rxHead = rxTail
    /\ pc = "read_n_loop" \/ (pc = "available_body" /\ caller = "read_n")

\* the handler of a direction cannot run: its enable bit is clear, or global
\* interrupts are off outside of a critical section
TxIsrOff == "UDRIE0" \notin ucsrb \/ (~sreg_I /\ ~sregSave)
RxIsrOff == "RXCIE0" \notin ucsrb \/ (~sreg_I /\ ~sregSave)

\* C19: liveness hazard.  A write() on a full TX ring leaves its wait only
\* after isrUDRE has advanced txTail, and a bulk read short of bytes on an
\* empty RX ring leaves its loop only after isrRX has pushed a byte; there is
\* no timeout.  So while the handler cannot run (begin() was never called,
\* say) the call never returns: the waiting state is left by no step.
C19_Hazard ==
    [][/\ WriteWaiting => (pc' = "write_wait" /\ (txTail' = txTail => WriteWaiting'))
       /\ (WriteWaiting /\ TxIsrOff) => (WriteWaiting' /\ TxIsrOff')
       /\ ReadWaiting => (rxHead' = rxHead => ReadWaiting')
       /\ (ReadWaiting /\ RxIsrOff) => (ReadWaiting' /\ RxIsrOff')
      ]_vars

\* begin() was never called and write() waits on the full TX ring
C19_Witness ==
    /\ WriteWaiting /\ TxIsrOff
    /\ lastSuccess = "none" /\ began = 0 /\ ~sreg_I
    /\ Len(TxUnsent) = UART_TX_BUFFER_SIZE - 1

\* the last k elements of a sequence
LastN(s, k) == SubSeq(s, Len(s) - k + 1, Len(s))

\* read(n, size) returns: it has popped exactly `size` bytes and n[0..size-1]
\* holds them in the order popped
BulkReadReturn ==
    (pc = "read_n_loop" /\ pc' = "idle") =>
        /\ Len(rdBuf) = arg
        /\ Len(readLog) >= arg
        /\ rdBuf = LastN(readLog, arg)

\* read(n, size) stores a byte: it is the byte read() popped at rxTail, never
\* the 0 of a read() that found the ring empty
BulkReadStore ==
    (caller = "read_n" /\ rdBuf' # rdBuf) =>
        /\ pc = "read_body" /\ rxHead # rxTail
        /\ rdBuf' = Append(rdBuf, rxBuffer[rxTail])
        /\ readLog' = Append(readLog, rxBuffer[rxTail])

\* read(n, 0) returns at once and touches nothing of the RX ring
BulkReadZero ==
    (pc = "read_n_loop" /\ arg = 0 /\ MainStep) =>
        /\ pc' = "idle" /\ rdBuf' = <<>>
        /\ UNCHANGED <<hw, rxRing, rxHist>>

\* a bulk read is in progress
InBulkRead == lastOp = "read_n" /\ pc # "idle"

\* C20 as stated: read(n, size) returns only after exactly `size` bytes have
\* been popped, stores them into n[0..size-1] in the order popped, and never
\* stores the 0 of a read() that found the ring empty; read(n, 0) returns at
\* once without touching the RX ring.
C20_AsStated ==
    [][BulkReadReturn /\ BulkReadStore /\ BulkReadZero]_vars

\* C20 amended: the same while no push has happened with SIZE-1 bytes unread
\* since the ring was last cleared, and then the bytes stored are received
\* bytes in arrival order; with the mainline executing, a bulk read that
\* finds at least as many bytes unread as it has still to collect returns,
\* unless such a push happens.
C20_BulkRead ==
    /\ [][/\ ~rxOverflowed' => (BulkReadReturn /\ BulkReadStore)
          /\ (~rxOverflowed' /\ pc = "read_n_loop" /\ pc' = "idle") =>
                 rdBuf = SubSeq(received, Len(readLog) - arg + 1, Len(readLog))
          /\ BulkReadZero
         ]_vars
    /\ (InBulkRead /\ available_value(rxHead, rxTail) >= rdLeft)
           ~> (pc = "idle" \/ rxOverflowed)

\* a bulk read of MaxBulk bytes has returned them in arrival order after
\* waiting for the second one, with the indices wrapped
C20_Witness ==
    /\ pc = "idle" /\ lastOp = "read_n" /\ ~rxOverflowed
    /\ Len(rdBuf) = MaxBulk /\ rdBuf = LastN(received, MaxBulk)
    /\ rdBuf[1] # rdBuf[2]
    /\ rxTail < MaxBulk /\ Len(readLog) > MaxBulk

\* the mainline is inside write(), read(), read(n, size), write(n, size),
\* available() or flush() called by the application
OpBody ==
    \/ pc \in {"write_wait", "write_store", "write_head", "write_rd", "write_wr",
               "write_n_loop", "read", "read_enter", "read_body", "read_n_loop",
               "available_body"}
    \/ (pc = "flush_body" /\ caller # "end")

\* C21: every operation other than begin()/end() reads the lifecycle flag as
\* a guard before acting: while the driver is Stopped a step of such an
\* operation changes no register and neither ring.
C21_GuardedOps ==
    [][(began = 0 /\ OpBody /\ pc' # pc) => UNCHANGED <<regs, rxRing, txRing>>]_vars

\* C22: initial state.  A fresh driver has both rings empty with the four
\* indices 0 and the lifecycle flag Stopped; so the first begin() passes its
\* guard and returns 1, and until then no byte is received and available()
\* returns 0.
C22_InitialState ==
    /\ rxHead = 0 /\ rxTail = 0 /\ txHead = 0 /\ txTail = 0
    /\ began = 0
    /\ rxBuffer = [i \in RxIndex |-> 0] /\ txBuffer = [i \in TxIndex |-> 0]
    /\ [](lastSuccess = "none" =>
              /\ rxHead = 0 /\ rxTail = 0 /\ received = <<>>
              /\ pc \notin BeginBody => began = 0)
    /\ [][/\ (lastSuccess = "none" /\ pc = "idle" /\ lastOp' = "begin" /\ MainStep)
                 => (pc' = "begin_sei" /\ began' = 1)
          /\ (lastSuccess = "none" /\ pc = "begin_wr" /\ pc' = "idle") => ret' = 1
          /\ (lastSuccess = "none" /\ pc = "available_body" /\ pc' = "idle")
                 => ret' = 0
         ]_vars

\* the first begin() has returned 1 with the four indices still 0
C22_Witness ==
    /\ pc = "idle" /\ lastOp = "begin" /\ ret = 1
    /\ lastSuccess = "begin"
    /\ rxHead = 0 /\ rxTail = 0 /\ txHead = 0 /\ txTail = 0
    /\ received = <<>>

IsrStep == pc' = pc /\ UNCHANGED <<lastOp, ret>>

\* C24: one run of isrUDRE does exactly one of two things.  If the TX ring is
\* not empty it stores txBuffer[txTail] into the data register and advances
\* txTail by one modulo N, leaving UCSRnB and txHead as they are; if it is
\* empty it clears UDRIE0 and nothing else, leaving txTail, txHead and the
\* data register as they are.
C24_IsrUDRE ==
    [][IsrStep =>
           /\ sreg_I /\ "UDRIE0" \in ucsrb
           /\ IF txHead # txTail
              THEN /\ udr' = txBuffer[txTail]
                   /\ txTail' = (txTail + 1) % UART_TX_BUFFER_SIZE
                   /\ sent' = Append(sent, txBuffer[txTail])
                   /\ UNCHANGED <<ucsrb, txHead, txBuffer>>
              ELSE /\ ucsrb' = ucsrb \ {"UDRIE0"}
                   /\ UNCHANGED <<txTail, txHead, txBuffer, udr, sent>>
           /\ UNCHANGED <<sreg_I, ubrrh, ubrrl, ucsra, ucsrc, rxRing, began>>
      ]_vars

\* isrUDRE has sent every byte of a wrapped ring and then, finding it empty,
\* has cleared UDRIE0
C24_Witness ==
    /\ sreg_I /\ "UDRIE0" \notin ucsrb /\ "TXEN0" \in ucsrb
    /\ txHead = txTail /\ txTail = 1
    /\ Len(sent) = MaxWrites /\ sent = written

\* C25: one run of isrRX stores the received byte at rxBuffer[rxHead] and
\* advances rxHead by one modulo N, whether or not the ring is full, and
\* leaves rxTail, the TX ring, every register and the lifecycle flag as they
\* are.
C25_IsrRX ==
    [][IsrStep =>
           /\ sreg_I /\ "RXCIE0" \in ucsrb
           /\ \E b \in Byte :
                  /\ rxBuffer' = [rxBuffer EXCEPT ![rxHead] = b]
                  /\ received' = Append(received, b)
           /\ rxHead' = (rxHead + 1) % UART_RX_BUFFER_SIZE
           /\ UNCHANGED <<rxTail, txRing, hw, began>>
      ]_vars

\* isrRX has pushed onto a full ring: rxHead has wrapped onto rxTail and the
\* oldest unread byte is overwritten
C25_Witness ==
    /\ rxOverflowed /\ rxHead = rxTail
    /\ Len(received) = UART_RX_BUFFER_SIZE /\ readLog = <<>>
    /\ rxBuffer[(rxHead + UART_RX_BUFFER_SIZE - 1) % UART_RX_BUFFER_SIZE]
           = received[UART_RX_BUFFER_SIZE]
    /\ received[1] # received[UART_RX_BUFFER_SIZE]

\* the mainline is inside the ATOMIC_BLOCK of available(), flush() or read()
InAtomicBlock == pc \in {"available_body", "flush_body", "read_body"}

\* the mainline is between the full check of write(n) and the publication of
\* txHead, or between the emptiness check of read() and its atomic block
BetweenCheckAndAct == pc \in {"write_store", "write_head", "read_enter"}

\* C26 as stated: available(), flush(), the full check of write() with the
\* store it guards, and the emptiness check of read() with its index
\* advance all run with interrupts masked.
C26_AsStated ==
    (InAtomicBlock \/ BetweenCheckAndAct) => ~sreg_I

\* C26 amended: available(), flush() and the fetch-and-advance of read() run
\* with interrupts masked.  The full check of write(), its store and its
\* publication of txHead, and the emptiness check of read(), run with the
\* interrupt flag as the caller left it: their steps do not touch it and no
\* SREG is saved, so once begin() has enabled interrupts a handler can run
\* between the check and the action.
C26_CriticalSections ==
    /\ [](InAtomicBlock => ~sreg_I)
    /\ [](BetweenCheckAndAct => ~sregSave)
    /\ []((BetweenCheckAndAct /\ lastSuccess # "none") => sreg_I)
    /\ [][((BetweenCheckAndAct \/ pc = "write_wait") /\ pc' # pc /\ ~InAtomicBlock')
              => UNCHANGED sreg_I]_vars

\* read() is inside its atomic block, which masks the interrupts begin() had
\* enabled, while the receive interrupt is enabled
C26_Witness ==
    /\ pc = "read_body" /\ ~sreg_I /\ sregSave
    /\ "RXCIE0" \in ucsrb /\ rxHead # rxTail

\* begin() has executed its sei()
SeiDone == lastSuccess # "none" \/ pc \in {"begin_cfg", "begin_rd", "begin_wr"}

\* C27: the critical sections restore the interrupt flag.  Outside of an
\* atomic block the global interrupt flag is set exactly if begin() has
\* executed sei(): available(), flush() and read() return with the flag as
\* it was on entry (inside their block it is clear and the saved copy holds
\* the entry value), and no operation, end() included, clears it.
C27_RestoreState ==
    /\ [](IF InAtomicBlock THEN ~sreg_I /\ sregSave = SeiDone
          ELSE sreg_I = SeiDone /\ ~sregSave)
    /\ [][/\ (InAtomicBlock /\ pc' # pc) => sreg_I' = sregSave
          /\ (~sreg_I /\ sreg_I' /\ ~InAtomicBlock) => pc = "begin_sei"
          /\ (sreg_I /\ ~sreg_I') => InAtomicBlock'
         ]_vars

\* flush() has returned with interrupts still disabled on a driver that was
\* never started
C27_Witness ==
    /\ pc = "idle" /\ lastOp = "flush"
    /\ ~sreg_I /\ lastSuccess = "none" /\ began = 0

\* a step of the mainline inside read(), read(n, size), available() or
\* flush() called by the application, or its call of one of them
RxOpStep ==
    \/ /\ pc \in {"read", "read_enter", "read_body", "read_n_loop",
                  "available_body"} \/ (pc = "flush_body" /\ caller # "end")
       /\ pc' # pc
    \/ /\ pc = "idle" /\ MainStep
       /\ lastOp' \in {"read", "read_n", "available", "flush"}

\* a step of the mainline inside write() or write(n, size), or its call of
\* one of them
TxOpStep ==
    \/ /\ pc \in {"write_wait", "write_store", "write_head", "write_rd",
                  "write_wr", "write_n_loop"}
       /\ pc' # pc
    \/ /\ pc = "idle" /\ MainStep
       /\ lastOp' \in {"write", "write_n"}

\* what belongs to one direction: the ring and its bits of UCSRnB
TxSide == <<txRing, "UDRIE0" \in ucsrb>>
RxSide == <<rxRing, ucsrb \cap {"RXEN0", "RXCIE0"}>>

\* C28: the two directions are independent.  read(), read(n, size),
\* available(), flush() and isrRX change neither TX index, not the TX storage
\* and not UDRIE0; write() and isrUDRE change neither RX index, not the RX
\* storage and not RXEN0/RXCIE0.
C28_Independent ==
    [][/\ RxOpStep => UNCHANGED TxSide
       /\ TxOpStep => UNCHANGED RxSide
       /\ (IsrStep /\ rxRing' # rxRing) => UNCHANGED TxSide
       /\ (IsrStep /\ <<txRing, udr, ucsrb>>' # <<txRing, udr, ucsrb>>)
              => UNCHANGED RxSide
      ]_vars

\* while Running a write() has returned with bytes unread in the RX ring and
\* the receive interrupt still enabled, and isrUDRE has sent a byte
C28_Witness ==
    /\ pc = "idle" /\ lastOp = "write" /\ began = 1
    /\ rxHead # rxTail /\ {"RXEN0", "RXCIE0"} \subseteq ucsrb
    /\ Len(sent) > 0 /\ txHead # txTail

\* C29 as stated: index ownership.  txHead is modified only by write() in
\* the mainline, txTail only by isrUDRE, rxHead only by isrRX, and rxTail
\* only by read() and flush() in the mainline.
C29_AsStated ==
    [][/\ txHead' # txHead => pc = "write_head"
       /\ txTail' # txTail => IsrStep
       /\ rxHead' # rxHead => IsrStep
       /\ rxTail' # rxTail => pc \in {"read_body", "flush_body"}
      ]_vars

\* C29 amended: txHead is modified only by write(), txTail only by isrUDRE
\* and rxTail only by read(); rxHead is modified by isrRX and also by the
\* mainline, in flush(), inside its critical section.
C29_IndexOwners ==
    [][/\ txHead' # txHead => pc = "write_head"
       /\ txTail' # txTail => IsrStep
       /\ rxHead' # rxHead => (IsrStep \/ (pc = "flush_body" /\ ~sreg_I))
       /\ rxTail' # rxTail => pc = "read_body"
      ]_vars

\* flush() has moved rxHead back onto rxTail while the TX ring was in use:
\* the slot at rxHead still holds the byte that was discarded
C29_Witness ==
    /\ pc = "idle" /\ lastOp = "flush"
    /\ rxHead = rxTail /\ rxBuffer[rxHead] # 0 /\ readLog = <<>> /\ received = <<>>
    /\ txHead # 0 /\ txTail # 0

\* C30 as stated: flush() sets tail = head: after it the RX tail is the value
\* the RX head had before, and the RX head is unchanged.
C30_AsStated ==
    [][(pc = "flush_body" /\ pc' # pc) =>
           /\ rxTail' = rxHead
           /\ rxHead' = rxHead
      ]_vars

\* C30 amended: flush() sets head = tail, atomically: after it the RX head
\* is the value the RX tail had before, the RX tail and the storage are
\* unchanged, and the unread bytes are discarded unread (the slot the
\* producer writes next is the one of the oldest discarded byte).
C30_FlushHead ==
    [][(pc = "flush_body" /\ pc' # pc) =>
           /\ ~sreg_I
           /\ rxHead' = rxTail
           /\ rxTail' = rxTail
           /\ rxBuffer' = rxBuffer
           /\ readLog' = <<>>
      ]_vars

\* flush() has discarded unread bytes of a ring whose tail had advanced:
\* rxHead is back on rxTail, at the slot of the oldest discarded byte
C30_Witness ==
    /\ pc = "idle" /\ lastOp = "flush" /\ received = <<>>
    /\ rxHead = rxTail /\ rxTail = 1
    /\ rxBuffer[1] # 0 /\ rxBuffer[0] = 0 /\ rxBuffer[2] # 0

\* C31: index range.  In every reachable state, under any interleaving of
\* begin, end, write, read, flush, available, isrRX and isrUDRE, rxHead and
\* rxTail lie in [0, UART_RX_BUFFER_SIZE) and txHead and txTail in
\* [0, UART_TX_BUFFER_SIZE), and so does the local `head` of write(): every
\* slot the code accesses (rxBuffer[rxHead], rxBuffer[rxTail],
\* txBuffer[txHead], txBuffer[txTail]) exists, and available() returns a
\* value in [0, UART_RX_BUFFER_SIZE - 1].
C31_IndexRange ==
    /\ rxHead \in RxIndex /\ rxTail \in RxIndex
    /\ txHead \in TxIndex /\ txTail \in TxIndex
    /\ head \in TxIndex
    /\ DOMAIN rxBuffer = RxIndex /\ DOMAIN txBuffer = TxIndex
    /\ available_value(rxHead, rxTail) \in 0..(UART_RX_BUFFER_SIZE - 1)
    /\ (pc = "idle" /\ lastOp = "available")
           => ret \in 0..(UART_RX_BUFFER_SIZE - 1)

\* all four indices have wrapped past the last slot and come to rest on it,
\* and available() has returned with the RX head behind the RX tail
C31_Witness ==
    /\ pc = "idle" /\ lastOp = "available" /\ ret = UART_RX_BUFFER_SIZE - 1
    /\ rxHead < rxTail
    /\ Len(received) > UART_RX_BUFFER_SIZE
    /\ txHead = 0 /\ txTail = 0 /\ Len(sent) = UART_TX_BUFFER_SIZE

\* the mainline is inside write(n): between its first statement and its
\* store into UCSRnB
InWrite ==
    pc \in {"write_wait", "write_store", "write_head", "write_rd", "write_wr"}

\* C32: isTransmitting() is a sound proxy for pending output.  Whenever the
\* mainline is not inside write(n), a non-empty TX ring (txHead # txTail)
\* implies that UDRIE0 is set.  The bit is cleared only by isrUDRE finding
\* the TX ring empty or by the store of a successful end(), and the store
\* that ends write(n) leaves the bit set whatever happened between its load
\* of UCSRnB and that store.
C32_SoundProxy ==
    /\ []((~InWrite /\ txHead # txTail) => "UDRIE0" \in ucsrb)
    /\ [][/\ ("UDRIE0" \in ucsrb /\ "UDRIE0" \notin ucsrb')
              => \/ IsrStep /\ txHead = txTail /\ UNCHANGED <<txRing, udr>>
                 \/ pc = "end_wr" /\ pc' = "idle" /\ ret' = 1
          /\ (pc = "write_wr" /\ pc' # pc) => "UDRIE0" \in ucsrb'
         ]_vars

\* write(n) has returned with its byte queued and UDRIE0 set, with
\* interrupts enabled and after isrUDRE has sent all the earlier bytes
C32_Witness ==
    /\ pc = "idle" /\ lastOp = "write"
    /\ txHead # txTail /\ "UDRIE0" \in ucsrb
    /\ Len(sent) > 0 /\ Len(written) = Len(sent) + 1
    /\ sreg_I

\* C33: overflow wraps the RX ring to "empty".  One run of isrRX changes
\* (N + rxHead - rxTail) mod N by exactly +1 modulo N; so when the ring
\* holds N - 1 unread bytes the push makes rxHead equal to rxTail, and in
\* that state, although N bytes were stored, available() returns 0 and
\* read() returns the sentinel 0 and leaves the indices alone.
C33_OverflowWrap ==
    [][/\ (IsrStep /\ received' # received) =>
              /\ available_value(rxHead', rxTail')
                     = (available_value(rxHead, rxTail) + 1) % UART_RX_BUFFER_SIZE
              /\ rxTail' = rxTail
              /\ available_value(rxHead, rxTail) = UART_RX_BUFFER_SIZE - 1
                     => (rxHead' = rxTail' /\ rxOverflowed')
       /\ (pc = "available_body" /\ pc' = "idle" /\ rxHead = rxTail) => ret' = 0
       /\ (pc = "idle" /\ MainStep /\ lastOp' = "read" /\ rxHead = rxTail) =>
              /\ pc' = "idle" /\ ret' = 0
              /\ UNCHANGED rxRing
      ]_vars

\* N bytes, none of them 0, were received and none was read: rxHead is back
\* on rxTail, every slot holds a received byte, and available() has
\* returned 0
C33_Witness ==
    /\ rxOverflowed /\ Len(received) = UART_RX_BUFFER_SIZE /\ readLog = <<>>
    /\ \A i \in RxIndex : rxBuffer[i] # 0
    /\ rxHead = rxTail
    /\ pc = "idle" /\ lastOp = "available" /\ ret = 0

\* the slot before index i of the TX ring
TxPrev(i) == (i + UART_TX_BUFFER_SIZE - 1) % UART_TX_BUFFER_SIZE

\* C34: write(n) publishes a byte only after storing it.  The byte is in
\* txBuffer[txHead] before txHead advances, txHead has advanced (and the
\* slot behind it still holds the byte) before UDRIE0 is set by write(n);
\* and in every interleaving a byte isrUDRE sends comes from a slot in front
\* of txHead and is the byte that was passed to write() for that position
\* of the output.
C34_PublishAfterStore ==
    /\ [](/\ pc = "write_head" => (txBuffer[txHead] = arg /\ head # txHead)
          /\ pc \in {"write_rd", "write_wr"}
                 => (txHead = head /\ txBuffer[TxPrev(txHead)] = arg))
    /\ [][/\ txHead' # txHead =>
                 (pc = "write_head" /\ txBuffer[txHead] = arg
                  /\ txHead' = (txHead + 1) % UART_TX_BUFFER_SIZE)
          /\ (InWrite /\ "UDRIE0" \notin ucsrb /\ "UDRIE0" \in ucsrb')
                 => (pc = "write_wr" /\ txHead = head)
          /\ sent' # sent =>
                 /\ txTail # txHead
                 /\ sent' = Append(sent, written[Len(sent) + 1])
                 /\ udr' = written[Len(sent) + 1]
                 /\ Len(sent) + 1 <= Len(written) - Len(TxPending)
         ]_vars

\* isrUDRE has sent every published byte while write(n) holds the next
\* byte, different from what its slot contains, and has not stored it yet
C34_Witness ==
    /\ pc = "write_store" /\ sreg_I /\ "UDRIE0" \in ucsrb
    /\ txHead = txTail /\ Len(sent) > 0
    /\ Len(sent) = Len(written) - 1
    /\ txBuffer[txHead] # arg

\* C35 as stated: read() advances rxTail only on a non-empty ring.  In
\* every interleaving with isrRX, at the step where read() takes
\* rxBuffer[rxTail] and advances rxTail, rxHead # rxTail.
C35_AsStated ==
    [][(pc = "read_body" /\ pc' # pc) => rxHead # rxTail]_vars

\* C35 amended: between the emptiness check of read() and the end of its
\* critical section the ring is non-empty unless isrRX has pushed with
\* SIZE-1 bytes unread.  While no such push has happened since the ring was
\* last cleared, read() takes rxBuffer[rxTail] and advances rxTail with
\* interrupts disabled and rxHead # rxTail, the byte it takes is the oldest
\* unread one, and rxTail never passes rxHead (no more bytes are taken than
\* were received).
C35_ReadNonEmpty ==
    /\ []((pc \in {"read_enter", "read_body"} /\ rxHead = rxTail)
              => rxOverflowed)
    /\ [](~rxOverflowed => Len(readLog) <= Len(received))
    /\ [][(pc = "read_body" /\ pc' # pc) =>
              /\ ~sreg_I
              /\ rxTail' = (rxTail + 1) % UART_RX_BUFFER_SIZE
              /\ ~rxOverflowed =>
                     /\ rxHead # rxTail
                     /\ rxBuffer[rxTail] = received[Len(readLog) + 1]
         ]_vars

\* read() has taken the oldest unread byte, not 0, of a ring that had wrapped
\* and never overflowed, and returned it with SIZE-2 bytes left unread
C35_Witness ==
    /\ pc = "idle" /\ lastOp = "read" /\ ret # 0
    /\ ~rxOverflowed
    /\ Len(readLog) > 1 /\ ret = received[Len(readLog)]
    /\ available_value(rxHead, rxTail) = UART_RX_BUFFER_SIZE - 2
    /\ rxHead < rxTail

====
